---- MODULE Spec2Model ----
(***************************************************************************)
(* Tic-tac-toe (Dioxus): the rule engine of src/src/types.rs (GameLogic)   *)
(* and the UI state machine of src/src/main.rs (TicTacToe component).      *)
(*                                                                         *)
(* Four specifications:                                                    *)
(*   Spec       the UI game: board, current_player, game_state signals,    *)
(*              driven by handle_cell_click and reset_game;                *)
(*   SpecFair   Spec in which accepted clicks keep being delivered;        *)
(*   SpecView   the UI game with the clicks going through the GameCell     *)
(*              buttons of src/src/components.rs;                          *)
(*   SpecLogic  the pure functions of GameLogic and Player::next, called   *)
(*              on every one of the 3^9 boards with coordinates in         *)
(*              0..MaxCoord.                                               *)
(***************************************************************************)
EXTENDS Integers, Sequences, FiniteSets, TLC

VARIABLES
    board,           \* main.rs: signal `board`
    current_player,  \* main.rs: signal `current_player`
    game_state,      \* main.rs: signal `game_state`
    last,            \* history: the last UI event and the state it was delivered in
    accepted,        \* history: the clicks that wrote the board since the last reset
    lboard,          \* SpecLogic: the board value the caller of GameLogic holds
    call,            \* SpecLogic: the GameLogic call in progress (op and arguments)
    ret              \* SpecLogic: what that call returned

vars == <<board, current_player, game_state, last, accepted, lboard, call, ret>>
uiVars == <<board, current_player, game_state, last, accepted>>
logicVars == <<lboard, call, ret>>

----------------------------------------------------------------------------
(* Bounds and program constants *)

\* Side of the grid: Board = [[Option<Player>; 3]; 3]
N == 3

\* GameLogic is called with row, col in 0..MaxCoord (usize: never negative);
\* values >= N are the out-of-range coordinates.
MaxCoord == 3

\* The count of accepted clicks is followed up to MaxAccepted
MaxAccepted == 10

Idx == 0 .. (N - 1)
Coords == 0 .. MaxCoord

----------------------------------------------------------------------------
(* Types *)

\* enum Player { X, O }
X == "X"
O == "O"
Player == {X, O}

\* Option<Player>: None, or Some(p) for a player p
None == "None"
Some(p) == p
is_some(c) == c # None
is_none(c) == c = None
Cell == Player \cup {None}

\* enum GameState { Playing, Won(Player), Draw }
Playing == <<"Playing">>
Won(p) == <<"Won", p>>
Draw == <<"Draw">>
GameState == {Playing, Draw} \cup {Won(p) : p \in Player}

\* type Board = [[Option<Player>; 3]; 3]
Board == [Idx -> [Idx -> Cell]]

\* board[row][col] = v on a copy of the array
SetCell(b, row, col, v) == [b EXCEPT ![row] = [@ EXCEPT ![col] = v]]

\* Rust array indexing board[row][col]: panics when an index is out of bounds
InBounds(row, col) == row \in Idx /\ col \in Idx

\* The outcome of evaluating a function: a value, or a panic
Returned(v) == [panic |-> FALSE, value |-> v]
Panicked == [panic |-> TRUE, value |-> <<"panic">>]

\* Result<Board, &'static str>
Ok(b) == <<"Ok", b>>
Err(msg) == <<"Err", msg>>
is_ok(r) == r[1] = "Ok"
is_err(r) == r[1] = "Err"
unwrap(r) == r[2]

----------------------------------------------------------------------------
(* types.rs: Player *)

\* Faulty variant of types_Player_next: the arm for O returns O
types_Player_next_stuck_on_O(p) == IF p = X THEN O ELSE O

\* Player::next (types.rs)
types_Player_next(p) == IF p = X THEN O ELSE X

----------------------------------------------------------------------------
(* types.rs: GameLogic *)

\* GameLogic::check_line: [Some(a), Some(b), Some(c)] if a == b && b == c => Some(a)
check_line(line) ==
    IF is_some(line[1]) /\ is_some(line[2]) /\ is_some(line[3])
       /\ line[1] = line[2] /\ line[2] = line[3]
    THEN Some(line[1])
    ELSE None

\* for row in 0..3 { if let Some(winner) = check_line(row) { return Some(winner) } }
RECURSIVE check_rows(_, _)
check_rows(b, row) ==
    IF row >= N THEN None
    ELSE LET w == check_line(<<b[row][0], b[row][1], b[row][2]>>)
         IN  IF is_some(w) THEN w ELSE check_rows(b, row + 1)

\* for col in 0..3 { if let Some(winner) = check_line(col) { return Some(winner) } }
RECURSIVE check_cols(_, _)
check_cols(b, col) ==
    IF col >= N THEN None
    ELSE LET w == check_line(<<b[0][col], b[1][col], b[2][col]>>)
         IN  IF is_some(w) THEN w ELSE check_cols(b, col + 1)

\* Faulty variant of check_diagonals: the anti-diagonal is never looked at
check_diagonals_main_only(b) ==
    check_line(<<b[0][0], b[1][1], b[2][2]>>)

\* The main diagonal, then the anti-diagonal
check_diagonals(b) ==
    LET d1 == check_line(<<b[0][0], b[1][1], b[2][2]>>)
        d2 == check_line(<<b[0][2], b[1][1], b[2][0]>>)
    IN  IF is_some(d1) THEN d1
        ELSE IF is_some(d2) THEN d2
        ELSE None

\* Faulty variant of GameLogic_check_winner: the rows are scanned bottom to top
GameLogic_check_winner_bottom_up(b) ==
    LET r2 == check_line(<<b[2][0], b[2][1], b[2][2]>>)
        r1 == check_line(<<b[1][0], b[1][1], b[1][2]>>)
        r0 == check_line(<<b[0][0], b[0][1], b[0][2]>>)
    IN  IF is_some(r2) THEN r2
        ELSE IF is_some(r1) THEN r1
        ELSE IF is_some(r0) THEN r0
        ELSE LET c == check_cols(b, 0)
             IN  IF is_some(c) THEN c
                 ELSE check_diagonals(b)

\* GameLogic::check_winner
GameLogic_check_winner(b) ==
    LET r == check_rows(b, 0)
    IN  IF is_some(r) THEN r
        ELSE LET c == check_cols(b, 0)
             IN  IF is_some(c) THEN c
                 ELSE check_diagonals(b)

\* Faulty variant of is_board_full: any() in place of all()
is_board_full_any(b) == \E row \in Idx : \E col \in Idx : is_some(b[row][col])

\* GameLogic::is_board_full: board.iter().flatten().all(|cell| cell.is_some())
is_board_full(b) == \A row \in Idx : \A col \in Idx : is_some(b[row][col])

\* Faulty variant of check_game_state: the full-board test comes before the winner
check_game_state_draw_first(b) ==
    IF is_board_full(b) THEN Draw
    ELSE LET winner == GameLogic_check_winner(b)
         IN  IF is_some(winner) THEN Won(winner) ELSE Playing

\* GameLogic::check_game_state
check_game_state(b) ==
    LET winner == GameLogic_check_winner(b)
    IN  IF is_some(winner) THEN Won(winner)
        ELSE IF is_board_full(b) THEN Draw
        ELSE Playing

\* GameLogic::empty_board: [[None; 3]; 3]
empty_board == [row \in Idx |-> [col \in Idx |-> None]]

\* Faulty variant of is_valid_move: board[row][col].is_none() && row < 3 && col < 3
is_valid_move_index_first(b, row, col) ==
    IF ~InBounds(row, col) THEN Panicked
    ELSE IF ~is_none(b[row][col]) THEN Returned(FALSE)
    ELSE Returned(row < N /\ col < N)

\* Faulty variant of is_valid_move: row <= 3 && col < 3 && board[row][col].is_none()
is_valid_move_off_by_one(b, row, col) ==
    IF ~(row <= N) THEN Returned(FALSE)
    ELSE IF ~(col < N) THEN Returned(FALSE)
    ELSE IF ~InBounds(row, col) THEN Panicked
    ELSE Returned(is_none(b[row][col]))

\* GameLogic::is_valid_move: row < 3 && col < 3 && board[row][col].is_none()
\* (&& evaluates its right operand only when the left one is true)
is_valid_move(b, row, col) ==
    IF ~(row < N) THEN Returned(FALSE)
    ELSE IF ~(col < N) THEN Returned(FALSE)
    ELSE IF ~InBounds(row, col) THEN Panicked
    ELSE Returned(is_none(b[row][col]))

\* The error message of make_move: Err("無効な手です") ("that is an invalid move")
INVALID_MOVE_MSG == "invalid move"

\* Faulty variant of make_move: only the bounds are checked, an occupied cell is
\* overwritten
make_move_overwrites(b, row, col, player) ==
    IF row < N /\ col < N
    THEN [panic |-> FALSE,
          value |-> Ok(SetCell(b, row, col, Some(player))),
          caller |-> b]
    ELSE [panic |-> FALSE, value |-> Err(INVALID_MOVE_MSG), caller |-> b]

\* Faulty variant of make_move: board[col][row] = Some(player)
make_move_transposed(b, row, col, player) ==
    LET valid == is_valid_move(b, row, col)
    IN  IF valid.panic THEN [panic |-> TRUE, value |-> <<"panic">>, caller |-> b]
        ELSE IF ~valid.value
             THEN [panic |-> FALSE, value |-> Err(INVALID_MOVE_MSG), caller |-> b]
        ELSE [panic |-> FALSE,
              value |-> Ok(SetCell(b, col, row, Some(player))),
              caller |-> b]

\* Variant of make_move with a structured error: Err(InvalidMove { row, col })
make_move_err_coords(b, row, col, player) ==
    LET valid == is_valid_move(b, row, col)
    IN  IF valid.panic THEN [panic |-> TRUE, value |-> <<"panic">>, caller |-> b]
        ELSE IF ~valid.value
             THEN [panic |-> FALSE,
                   value |-> Err(<<"InvalidMove", row, col>>),
                   caller |-> b]
        ELSE [panic |-> FALSE,
              value |-> Ok(SetCell(b, row, col, Some(player))),
              caller |-> b]

\* Faulty variant of make_move: the board is taken by &mut, the caller's array is
\* the one written to
make_move_in_place(b, row, col, player) ==
    LET valid == is_valid_move(b, row, col)
    IN  IF valid.panic THEN [panic |-> TRUE, value |-> <<"panic">>, caller |-> b]
        ELSE IF ~valid.value
             THEN [panic |-> FALSE, value |-> Err(INVALID_MOVE_MSG), caller |-> b]
        ELSE [panic |-> FALSE,
              value |-> Ok(SetCell(b, row, col, Some(player))),
              caller |-> SetCell(b, row, col, Some(player))]

\* GameLogic::make_move(mut board, row, col, player): the parameter is the callee's
\* own copy of the array ([[Option<Player>; 3]; 3] is Copy). The outcome pairs the
\* returned Result with the array the caller still holds after the call.
make_move(b, row, col, player) ==
    LET valid == is_valid_move(b, row, col)
    IN  IF valid.panic THEN [panic |-> TRUE, value |-> <<"panic">>, caller |-> b]
        ELSE IF ~valid.value
             THEN [panic |-> FALSE, value |-> Err(INVALID_MOVE_MSG), caller |-> b]
        ELSE IF ~InBounds(row, col)
             THEN [panic |-> TRUE, value |-> <<"panic">>, caller |-> b]
        ELSE [panic |-> FALSE,
              value |-> Ok(SetCell(b, row, col, Some(player))),
              caller |-> b]

----------------------------------------------------------------------------
(* main.rs: Player and the TicTacToe component *)

\* Player::next (main.rs)
Player_next(p) == IF p = X THEN O ELSE X

\* check_winner, rows: for i in 0..3 { if let (Some(a), Some(b), Some(c)) = ... }
RECURSIVE cw_rows(_, _)
cw_rows(b, i) ==
    IF i >= N THEN None
    ELSE IF is_some(b[i][0]) /\ is_some(b[i][1]) /\ is_some(b[i][2])
            /\ b[i][0] = b[i][1] /\ b[i][1] = b[i][2]
         THEN Some(b[i][0])
         ELSE cw_rows(b, i + 1)

\* check_winner, columns: for j in 0..3 { ... }
RECURSIVE cw_cols(_, _)
cw_cols(b, j) ==
    IF j >= N THEN None
    ELSE IF is_some(b[0][j]) /\ is_some(b[1][j]) /\ is_some(b[2][j])
            /\ b[0][j] = b[1][j] /\ b[1][j] = b[2][j]
         THEN Some(b[0][j])
         ELSE cw_cols(b, j + 1)

\* check_winner, the diagonal from the top left
cw_diag_main(b) ==
    IF is_some(b[0][0]) /\ is_some(b[1][1]) /\ is_some(b[2][2])
       /\ b[0][0] = b[1][1] /\ b[1][1] = b[2][2]
    THEN Some(b[0][0])
    ELSE None

\* check_winner, the diagonal from the top right
cw_diag_anti(b) ==
    IF is_some(b[0][2]) /\ is_some(b[1][1]) /\ is_some(b[2][0])
       /\ b[0][2] = b[1][1] /\ b[1][1] = b[2][0]
    THEN Some(b[0][2])
    ELSE None

\* Faulty variant of check_winner: the full-board test is missing, a board without a
\* winning line is always Playing
check_winner_no_draw(b) ==
    IF is_some(cw_rows(b, 0)) THEN Won(cw_rows(b, 0))
    ELSE IF is_some(cw_cols(b, 0)) THEN Won(cw_cols(b, 0))
    ELSE IF is_some(cw_diag_main(b)) THEN Won(cw_diag_main(b))
    ELSE IF is_some(cw_diag_anti(b)) THEN Won(cw_diag_anti(b))
    ELSE Playing

\* Faulty variant of check_winner: the loop over the columns is missing
check_winner_no_columns(b) ==
    IF is_some(cw_rows(b, 0)) THEN Won(cw_rows(b, 0))
    ELSE IF is_some(cw_diag_main(b)) THEN Won(cw_diag_main(b))
    ELSE IF is_some(cw_diag_anti(b)) THEN Won(cw_diag_anti(b))
    ELSE IF \A row \in Idx : \A col \in Idx : is_some(b[row][col]) THEN Draw
    ELSE Playing

\* The check_winner closure of TicTacToe: Board -> GameState
check_winner(b) ==
    IF is_some(cw_rows(b, 0)) THEN Won(cw_rows(b, 0))
    ELSE IF is_some(cw_cols(b, 0)) THEN Won(cw_cols(b, 0))
    ELSE IF is_some(cw_diag_main(b)) THEN Won(cw_diag_main(b))
    ELSE IF is_some(cw_diag_anti(b)) THEN Won(cw_diag_anti(b))
    ELSE IF \A row \in Idx : \A col \in Idx : is_some(b[row][col]) THEN Draw
    ELSE Playing

\* The three signals as one value
Signals(b, cp, gs) == [board |-> b, current_player |-> cp, game_state |-> gs]

\* Faulty variant of handle_cell_click: the status is computed from the board as it
\* was before the move
handle_cell_click_stale_status(b, cp, gs, row, col) ==
    IF gs # Playing \/ is_some(b[row][col])
    THEN Signals(b, cp, gs)
    ELSE LET nb == SetCell(b, row, col, Some(cp))
             new_game_state == check_winner(b)
         IN  Signals(nb,
                     IF new_game_state = Playing THEN Player_next(cp) ELSE cp,
                     new_game_state)

\* Faulty variant of handle_cell_click: the player changes after every accepted move
handle_cell_click_always_flips(b, cp, gs, row, col) ==
    IF gs # Playing \/ is_some(b[row][col])
    THEN Signals(b, cp, gs)
    ELSE LET nb == SetCell(b, row, col, Some(cp))
         IN  Signals(nb, Player_next(cp), check_winner(nb))

\* Faulty variant of handle_cell_click: the guard tests the cell only, not game_state
handle_cell_click_no_terminal_guard(b, cp, gs, row, col) ==
    IF is_some(b[row][col])
    THEN Signals(b, cp, gs)
    ELSE LET nb == SetCell(b, row, col, Some(cp))
             new_game_state == check_winner(nb)
         IN  Signals(nb,
                     IF new_game_state = Playing THEN Player_next(cp) ELSE cp,
                     new_game_state)

\* Faulty variant of handle_cell_click: the guard tests game_state only, a click on
\* an occupied cell writes over it
handle_cell_click_overwrites(b, cp, gs, row, col) ==
    IF gs # Playing
    THEN Signals(b, cp, gs)
    ELSE LET nb == SetCell(b, row, col, Some(cp))
             new_game_state == check_winner(nb)
         IN  Signals(nb,
                     IF new_game_state = Playing THEN Player_next(cp) ELSE cp,
                     new_game_state)

\* The handle_cell_click closure: the signals after the handler ran on (row, col)
handle_cell_click(b, cp, gs, row, col) ==
    IF gs # Playing \/ is_some(b[row][col])
    THEN Signals(b, cp, gs)
    ELSE LET nb == SetCell(b, row, col, Some(cp))
             new_game_state == check_winner(nb)
         IN  Signals(nb,
                     IF new_game_state = Playing THEN Player_next(cp) ELSE cp,
                     new_game_state)

\* Faulty variant of reset_game: game_state is not set back to Playing
reset_game_keeps_state(b, cp, gs) ==
    Signals([row \in Idx |-> [col \in Idx |-> None]], X, gs)

\* Faulty variant of reset_game: current_player is not set back to X
reset_game_keeps_player(b, cp, gs) ==
    Signals([row \in Idx |-> [col \in Idx |-> None]], cp, Playing)

\* The reset_game closure: the signals after the handler ran
reset_game(b, cp, gs) ==
    Signals([row \in Idx |-> [col \in Idx |-> None]], X, Playing)

----------------------------------------------------------------------------
(* Spec: the UI game *)

\* The last event: its kind, the clicked cell, and the signals it was delivered in
Event(op, row, col) ==
    [op |-> op, row |-> row, col |-> col,
     board |-> board, current_player |-> current_player, game_state |-> game_state]

\* A GameLogic call: the function, and the arguments the caller passed
Call(op, b, row, col, player) ==
    [op |-> op, board |-> b, row |-> row, col |-> col, player |-> player]
NoCall == Call("idle", empty_board, 0, 0, X)
\* No GameLogic call is in progress: nothing was returned
NoRet == Returned(<<"none">>)

\* use_signal(|| [[None; 3]; 3]), use_signal(|| Player::X), use_signal(|| GameState::Playing)
UIInit ==
    /\ board = [row \in Idx |-> [col \in Idx |-> None]]
    /\ current_player = X
    /\ game_state = Playing
    /\ last = [op |-> "init", row |-> 0, col |-> 0,
               board |-> board, current_player |-> current_player,
               game_state |-> game_state]
    /\ accepted = 0

Init ==
    /\ UIInit
    /\ lboard = empty_board
    /\ call = NoCall
    /\ ret = NoRet

\* A click on cell (row, col) of the 3x3 grid reaches handle_cell_click
HandleCellClick ==
    \E row \in Idx : \E col \in Idx :
        LET s == handle_cell_click(board, current_player, game_state, row, col)
        IN  /\ board' = s.board
            /\ current_player' = s.current_player
            /\ game_state' = s.game_state
            /\ last' = Event("click", row, col)
            /\ accepted' = IF s.board # board THEN accepted + 1 ELSE accepted
            /\ accepted' <= MaxAccepted
            /\ UNCHANGED logicVars

\* A click on the reset button reaches reset_game
ResetGame ==
    LET s == reset_game(board, current_player, game_state)
    IN  /\ board' = s.board
        /\ current_player' = s.current_player
        /\ game_state' = s.game_state
        /\ last' = Event("reset", 0, 0)
        /\ accepted' = 0
        /\ UNCHANGED logicVars

Next == HandleCellClick \/ ResetGame

Spec == Init /\ [][Next]_vars

\* A click that gets past the guard of handle_cell_click and writes the board
AcceptedStep == HandleCellClick /\ board' # board

\* The UI game in which clicks on empty cells keep being delivered: as long as the
\* handler would accept a click, one is eventually delivered
SpecFair == Init /\ [][Next]_vars /\ WF_vars(AcceptedStep)

----------------------------------------------------------------------------
(* components.rs: GameBoard and GameCell; SpecView: the UI game through them *)

\* Faulty variant of GameCell_is_disabled: game_state is not looked at
GameCell_is_disabled_cell_only(cell_value, gs) == is_some(cell_value)

\* GameCell: let is_disabled = game_state != GameState::Playing || cell_value.is_some()
GameCell_is_disabled(cell_value, gs) == gs # Playing \/ is_some(cell_value)

\* GameBoard: for row in 0..3 { for col in 0..3 { GameCell { row, col, .. } } }
GameBoard_cells == {<<row, col>> : row \in 0..(N - 1), col \in 0..(N - 1)}

\* A click on the button of GameCell (row, col), rendered by GameBoard with
\* cell_value: board[row][col] and game_state from the signals:
\* onclick: move |_| if !is_disabled { onclick.call((row, col)) }
GameCellClick ==
    \E rc \in GameBoard_cells :
        LET row == rc[1]
            col == rc[2]
            is_disabled == GameCell_is_disabled(board[row][col], game_state)
            s == handle_cell_click(board, current_player, game_state, row, col)
        IN  /\ IF ~is_disabled
               THEN /\ board' = s.board
                    /\ current_player' = s.current_player
                    /\ game_state' = s.game_state
                    /\ last' = Event("click", row, col)
                    /\ accepted' = IF s.board # board THEN accepted + 1 ELSE accepted
               ELSE /\ UNCHANGED <<board, current_player, game_state, accepted>>
                    /\ last' = Event("disabled_click", row, col)
            /\ accepted' <= MaxAccepted
            /\ UNCHANGED logicVars

NextView == GameCellClick \/ ResetGame

SpecView == Init /\ [][NextView]_vars

----------------------------------------------------------------------------
(* SpecLogic: the functions of GameLogic, on every board *)

LogicInit ==
    /\ UIInit
    /\ lboard \in Board
    /\ call = NoCall
    /\ ret = NoRet

\* GameLogic::is_valid_move(lboard, row, col)
CallIsValidMove ==
    /\ call.op = "idle"
    /\ \E row \in Coords : \E col \in Coords :
        /\ call' = Call("is_valid_move", lboard, row, col, X)
        /\ ret' = is_valid_move(lboard, row, col)
    /\ UNCHANGED <<lboard, uiVars>>

\* GameLogic::make_move(lboard, row, col, player): the caller keeps r.caller
CallMakeMove ==
    /\ call.op = "idle"
    /\ \E row \in Coords : \E col \in Coords : \E player \in Player :
        LET r == make_move(lboard, row, col, player)
        IN  /\ call' = Call("make_move", lboard, row, col, player)
            /\ ret' = r
            /\ lboard' = r.caller
    /\ UNCHANGED uiVars

\* GameLogic::check_game_state(lboard)
CallCheckGameState ==
    /\ call.op = "idle"
    /\ call' = Call("check_game_state", lboard, 0, 0, X)
    /\ ret' = Returned(check_game_state(lboard))
    /\ UNCHANGED <<lboard, uiVars>>

\* The caller is done with the result
Return ==
    /\ call.op # "idle"
    /\ call' = NoCall
    /\ ret' = NoRet
    /\ UNCHANGED <<lboard, uiVars>>

\* let board = GameLogic::make_move(..).unwrap(); GameLogic::check_game_state(board):
\* the caller takes the Ok board of the make_move that has just returned and derives
\* its status
CallCheckGameStateOfMove ==
    /\ call.op = "make_move"
    /\ ~ret.panic
    /\ is_ok(ret.value)
    /\ call' = [call EXCEPT !.op = "make_move;check_game_state"]
    /\ lboard' = unwrap(ret.value)
    /\ ret' = Returned(check_game_state(unwrap(ret.value)))
    /\ UNCHANGED uiVars

\* The two definitions of Player::next: "types" is types.rs, "main" is main.rs
PlayerNextIn(file, p) ==
    IF file = "types" THEN types_Player_next(p) ELSE Player_next(p)

\* The name of the call p.next() and of the call p.next().next() in a file
NextOp(file) == IF file = "types" THEN "types::next" ELSE "main::next"
NextNextOp(file) == IF file = "types" THEN "types::next::next" ELSE "main::next::next"

\* p.next(), in either file
CallPlayerNext ==
    /\ call.op = "idle"
    /\ \E file \in {"types", "main"} : \E p \in Player :
        /\ call' = Call(NextOp(file), lboard, 0, 0, p)
        /\ ret' = Returned(PlayerNextIn(file, p))
    /\ UNCHANGED <<lboard, uiVars>>

\* p.next().next(): next applied to the player that next has just returned
CallPlayerNextAgain ==
    /\ \E file \in {"types", "main"} :
        /\ call.op = NextOp(file)
        /\ call' = [call EXCEPT !.op = NextNextOp(file)]
        /\ ret' = Returned(PlayerNextIn(file, ret.value))
    /\ UNCHANGED <<lboard, uiVars>>

NextLogic ==
    \/ CallIsValidMove
    \/ CallMakeMove
    \/ CallCheckGameState
    \/ CallCheckGameStateOfMove
    \/ CallPlayerNext
    \/ CallPlayerNextAgain
    \/ Return

SpecLogic == LogicInit /\ [][NextLogic]_vars

----------------------------------------------------------------------------
(* Properties of GameLogic, checked under SpecLogic *)

\* The cell (row, col) lies on the grid and is unoccupied on board b
FreeCell(b, row, col) == row < N /\ col < N /\ b[row][col] = None

\* The eight lines as cell positions, in the order rows top to bottom, columns left
\* to right, main diagonal, anti-diagonal
WinLines ==
    << <<<<0, 0>>, <<0, 1>>, <<0, 2>>>>,
       <<<<1, 0>>, <<1, 1>>, <<1, 2>>>>,
       <<<<2, 0>>, <<2, 1>>, <<2, 2>>>>,
       <<<<0, 0>>, <<1, 0>>, <<2, 0>>>>,
       <<<<0, 1>>, <<1, 1>>, <<2, 1>>>>,
       <<<<0, 2>>, <<1, 2>>, <<2, 2>>>>,
       <<<<0, 0>>, <<1, 1>>, <<2, 2>>>>,
       <<<<0, 2>>, <<1, 1>>, <<2, 0>>>> >>

\* All three cells of line l of board b hold marker m
LineOf(b, l, m) == \A k \in 1..3 : b[l[k][1]][l[k][2]] = m

\* Line l of board b is a winning line
Winning(b, l) == \E m \in Player : LineOf(b, l, m)

\* The marker of the first winning line of b in the order of WinLines
FirstWinner(b) ==
    LET i == CHOOSE k \in 1..Len(WinLines) :
                 /\ Winning(b, WinLines[k])
                 /\ \A j \in 1..(k - 1) : ~Winning(b, WinLines[j])
    IN  b[WinLines[i][1][1]][WinLines[i][1][2]]

\* C1: is_valid_move(board, row, col) returns, and returns true if and only if
\* row < 3, col < 3 and board[row][col] is unoccupied; out-of-range coordinates
\* give false.
C1_IsValidMoveIffFreeCell ==
    call.op = "is_valid_move" =>
        /\ ~ret.panic
        /\ ret.value = FreeCell(call.board, call.row, call.col)

\* C1, its case: is_valid_move returned false for a row outside the grid
C1_Witness ==
    /\ call.op = "is_valid_move"
    /\ call.row >= N
    /\ call.col < N
    /\ ret = Returned(FALSE)

\* C2: make_move fails exactly when the target cell is occupied or a coordinate is
\* outside [0,3), that is exactly when is_valid_move is false, and succeeds in every
\* other case.
C2_MakeMoveFailsIffInvalid ==
    call.op = "make_move" =>
        /\ ~ret.panic
        /\ is_err(ret.value) = ~FreeCell(call.board, call.row, call.col)
        /\ is_ok(ret.value) = FreeCell(call.board, call.row, call.col)
        /\ is_err(ret.value) = ~is_valid_move(call.board, call.row, call.col).value

\* C2, its case: make_move failed on an occupied cell of the grid
C2_Witness ==
    /\ call.op = "make_move"
    /\ InBounds(call.row, call.col)
    /\ is_some(call.board[call.row][call.col])
    /\ is_err(ret.value)

\* C3: when make_move succeeds, the returned board has cell (row, col) equal to the
\* marker and every other cell equal to the same cell of the board passed in.
C3_MakeMoveSetsOnlyTarget ==
    (call.op = "make_move" /\ ~ret.panic /\ is_ok(ret.value)) =>
        /\ InBounds(call.row, call.col)
        /\ unwrap(ret.value) \in Board
        /\ \A row \in Idx : \A col \in Idx :
               unwrap(ret.value)[row][col] =
                   IF row = call.row /\ col = call.col
                   THEN Some(call.player)
                   ELSE call.board[row][col]

\* C3, its case: make_move succeeded on a board that already held both markers,
\* off the diagonal
C3_Witness ==
    /\ call.op = "make_move"
    /\ is_ok(ret.value)
    /\ call.row # call.col
    /\ \E r1, c1, r2, c2 \in Idx : call.board[r1][c1] = X /\ call.board[r2][c2] = O

\* C4 as stated: the error of a failed make_move carries the attempted row and col,
\* so a failed call with other coordinates returns a different error.
C4_ErrorCarriesCoordinates ==
    (call.op = "make_move" /\ is_err(ret.value)) =>
        \A row \in Coords : \A col \in Coords : \A player \in Player :
            LET other == make_move(call.board, row, col, player)
            IN  (is_err(other.value) /\ <<row, col>> # <<call.row, call.col>>)
                    => other.value # ret.value

\* C4, amended: the error of a failed make_move is the one fixed message, whatever
\* the coordinates: every failed call on the same board returns the same error
\* value, which does not tell the attempted row and col.
C4_ErrorIsFixedMessage ==
    (call.op = "make_move" /\ is_err(ret.value)) =>
        /\ ret.value = Err(INVALID_MOVE_MSG)
        /\ \A row \in Coords : \A col \in Coords : \A player \in Player :
               LET other == make_move(call.board, row, col, player)
               IN  is_err(other.value) => other.value = ret.value

\* C4, its case: make_move failed, and it also fails, with an equal error, at other
\* coordinates
C4_Witness ==
    /\ call.op = "make_move"
    /\ is_err(ret.value)
    /\ \E row \in Coords : \E col \in Coords :
           /\ <<row, col>> # <<call.row, call.col>>
           /\ make_move(call.board, row, col, call.player).value = ret.value

\* C5: make_move never changes the board the caller holds: after any call,
\* successful or failed, it is cell for cell the board that was passed in.
C5_MakeMoveLeavesCallerBoard ==
    call.op = "make_move" =>
        \A row \in Idx : \A col \in Idx : lboard[row][col] = call.board[row][col]

\* C5, its case: make_move succeeded, and the board returned differs from the one
\* the caller holds
C5_Witness ==
    /\ call.op = "make_move"
    /\ is_ok(ret.value)
    /\ unwrap(ret.value) # lboard
    /\ lboard = call.board

\* C6: on every board, check_game_state returns Won(m), m the marker of a winning
\* line, if one of the eight lines is held by one marker; otherwise Draw if all nine
\* cells are occupied; otherwise Playing.
C6_CheckGameStateByLines ==
    call.op = "check_game_state" =>
        /\ ~ret.panic
        /\ IF \E k \in 1..Len(WinLines) : Winning(call.board, WinLines[k])
           THEN \E m \in Player :
                    /\ ret.value = Won(m)
                    /\ \E k \in 1..Len(WinLines) : LineOf(call.board, WinLines[k], m)
           ELSE IF \A row \in Idx : \A col \in Idx : call.board[row][col] # None
           THEN ret.value = Draw
           ELSE ret.value = Playing

\* C6, its case: check_game_state returned Won on a board that legal play cannot
\* produce, whose only winning line is the anti-diagonal
C6_Witness ==
    /\ call.op = "check_game_state"
    /\ ret.value = Won(O)
    /\ \A k \in 1..Len(WinLines) : Winning(call.board, WinLines[k]) <=> k = 8
    /\ \A row \in Idx : \A col \in Idx :
           call.board[row][col] = IF row + col = 2 THEN O ELSE None

\* C7: when a board has winning lines, check_game_state reports the marker of the
\* first of them in the order row 0, row 1, row 2, column 0, column 1, column 2,
\* main diagonal, anti-diagonal. Row 0 all X and row 1 all O gives Won(X). (A board
\* with column 0 all O and row 2 all X would give Won(X), but there is none: the
\* two lines share cell (2, 0).)
C7_FirstWinningLineWins ==
    call.op = "check_game_state" =>
        /\ (\E k \in 1..Len(WinLines) : Winning(call.board, WinLines[k]))
               => ret.value = Won(FirstWinner(call.board))
        /\ (LineOf(call.board, WinLines[1], X) /\ LineOf(call.board, WinLines[2], O))
               => ret.value = Won(X)
        /\ (LineOf(call.board, WinLines[4], O) /\ LineOf(call.board, WinLines[3], X))
               => ret.value = Won(X)

\* C7, its case: row 0 is all X, row 1 is all O, and check_game_state returned
C7_Witness ==
    /\ call.op = "check_game_state"
    /\ LineOf(call.board, WinLines[1], X)
    /\ LineOf(call.board, WinLines[2], O)
    /\ ret.value = Won(X)

\* C15: Player::next is an involution without fixed points, in types.rs and in
\* main.rs: next(next(m)) = m and next(m) # m for both markers, next(X) = O and
\* next(O) = X.
C15_NextIsInvolution ==
    /\ call.op \in {"types::next", "main::next"} =>
           /\ ret.value # call.player
           /\ call.player = X => ret.value = O
           /\ call.player = O => ret.value = X
    /\ call.op \in {"types::next::next", "main::next::next"} =>
           ret.value = call.player

\* C15, its case: next has been applied twice to O (types.rs) and has returned O
C15_Witness ==
    /\ call.op = "types::next::next"
    /\ call.player = O
    /\ ret.value = O

\* C16: check_game_state returns Playing for the empty board and for every board
\* obtained from the empty board by one successful make_move, any cell, either
\* marker.
C16_PlayingAfterAtMostOneMove ==
    /\ (call.op = "check_game_state" /\ call.board = empty_board) =>
           ret.value = Playing
    /\ (call.op = "make_move;check_game_state" /\ call.board = empty_board) =>
           ret.value = Playing

\* C16, its case: O was placed on the centre of the empty board and the status of
\* the resulting board was derived
C16_Witness ==
    /\ call.op = "make_move;check_game_state"
    /\ call.board = empty_board
    /\ call.player = O
    /\ call.row = 1
    /\ call.col = 1
    /\ lboard[1][1] = O
    /\ ret.value = Playing

\* C17: is_valid_move is total: it never panics, that is it never indexes the board
\* outside the 3x3 grid (an out-of-bounds index is a panic), and for an out-of-range
\* row or col it returns false.
C17_IsValidMoveTotal ==
    call.op = "is_valid_move" =>
        /\ ret.panic = FALSE
        /\ ret.value \in BOOLEAN
        /\ (call.row >= N \/ call.col >= N) => ret.value = FALSE

\* C17, its case: is_valid_move has returned false for a column outside the grid,
\* with the row inside
C17_Witness ==
    /\ call.op = "is_valid_move"
    /\ call.row < N
    /\ call.col >= N
    /\ ret.panic = FALSE
    /\ ret.value = FALSE

\* C19: the status function inlined in the UI (check_winner of main.rs) and
\* GameLogic::check_game_state return the same status on every one of the 3^9
\* boards, boards with winning lines of both markers included.
C19_CheckWinnerEqualsCheckGameState ==
    call.op = "check_game_state" => ret.value = check_winner(call.board)

\* C19, its case: check_game_state has returned on a board where row 1 is all O and
\* row 2 is all X
C19_Witness ==
    /\ call.op = "check_game_state"
    /\ LineOf(call.board, WinLines[2], O)
    /\ LineOf(call.board, WinLines[3], X)
    /\ ret.value = Won(O)
    /\ check_winner(call.board) = Won(O)

----------------------------------------------------------------------------
(* Properties of the UI game, checked under Spec *)

\* The last event was a click that handle_cell_click's guard lets through
AcceptedClick ==
    /\ last.op = "click"
    /\ last.game_state = Playing
    /\ last.board[last.row][last.col] = None

\* The last event was a click that handle_cell_click's guard turns away
RejectedClick ==
    /\ last.op = "click"
    /\ (last.game_state # Playing \/ last.board[last.row][last.col] # None)

\* C8: in every reachable state of the UI game the stored game_state is the status
\* of the stored board, game_state = check_winner(board).
C8_StatusMatchesBoard == game_state = check_winner(board)

\* C8, its case: a click has just ended the game with a win for O
C8_Witness ==
    /\ last.op = "click"
    /\ last.game_state = Playing
    /\ game_state = Won(O)

\* C9: on every accepted move, current_player becomes the other player if and only
\* if the status after the move is Playing; on Won or Draw it is left as it was.
C9_PlayerFlipsIffPlaying ==
    AcceptedClick =>
        /\ (game_state = Playing) = (current_player # last.current_player)
        /\ game_state = Playing =>
               current_player = (IF last.current_player = X THEN O ELSE X)
        /\ game_state # Playing => current_player = last.current_player

\* C9, its case: an accepted move has produced a draw, and the player is unchanged
C9_Witness ==
    /\ AcceptedClick
    /\ game_state = Draw
    /\ current_player = last.current_player

\* C10: a click is rejected whenever game_state is Won or Draw or the clicked cell
\* is occupied, and a rejected click leaves board, current_player and game_state
\* unchanged; so once the game is over no click changes them until a reset.
C10_RejectedClickChangesNothing ==
    RejectedClick =>
        /\ board = last.board
        /\ current_player = last.current_player
        /\ game_state = last.game_state

\* C10, its case: an empty cell was clicked after the game was won
C10_Witness ==
    /\ last.op = "click"
    /\ last.game_state \in {Won(X), Won(O)}
    /\ last.board[last.row][last.col] = None

\* C11: between two resets, a cell that has become occupied keeps its marker: no
\* click removes or changes a placed marker (each click preserves every occupied
\* cell, hence so does every sequence of clicks).
C11_PlacedMarkersStay ==
    last.op = "click" =>
        \A row \in Idx : \A col \in Idx :
            last.board[row][col] # None => board[row][col] = last.board[row][col]

\* C11, its case: an occupied cell was clicked while the game was still being played
C11_Witness ==
    /\ last.op = "click"
    /\ last.game_state = Playing
    /\ last.board[last.row][last.col] = O
    /\ last.current_player = X
    /\ board[last.row][last.col] = O

\* C12: for every accepted click (row, col), the handler's new board is the Ok
\* result of GameLogic::make_move(board, row, col, current_player) and its new
\* game_state is GameLogic::check_game_state of that board; and a click delivered
\* in a Playing state is accepted exactly when GameLogic::is_valid_move(board, row,
\* col) is true.
C12_HandlerRefinesGameLogic ==
    LET moved == make_move(last.board, last.row, last.col, last.current_player)
        valid == is_valid_move(last.board, last.row, last.col)
    IN  /\ AcceptedClick =>
               /\ ~moved.panic
               /\ is_ok(moved.value)
               /\ board = unwrap(moved.value)
               /\ game_state = check_game_state(unwrap(moved.value))
        /\ (last.op = "click" /\ last.game_state = Playing) =>
               /\ ~valid.panic
               /\ valid.value = (board # last.board)
               /\ valid.value = AcceptedClick

\* C12, its case: an accepted click has filled the board without a winning line
C12_Witness ==
    /\ AcceptedClick
    /\ board # last.board
    /\ \A row \in Idx : \A col \in Idx : board[row][col] # None
    /\ game_state = Draw

\* C13: from every reachable state, reset produces the state with all nine cells
\* unoccupied, current_player = X and game_state = Playing, which is the initial
\* state; empty_board() has all nine cells unoccupied.
C13_ResetGivesInitialState ==
    /\ \A row \in Idx : \A col \in Idx : empty_board[row][col] = None
    /\ last.op = "init" =>
           board = empty_board /\ current_player = X /\ game_state = Playing
    /\ last.op = "reset" =>
           /\ \A row \in Idx : \A col \in Idx : board[row][col] = None
           /\ board = empty_board
           /\ current_player = X
           /\ game_state = Playing

\* C13, its case: the game was reset after O had won
C13_Witness ==
    /\ last.op = "reset"
    /\ last.game_state = Won(O)
    /\ last.current_player = O
    /\ board # last.board

\* Marker m holds at least one of the eight lines of board b
HasLine(b, m) == \E k \in 1..Len(WinLines) : LineOf(b, WinLines[k], m)

\* The number of lines of board b that marker m holds
LinesHeld(b, m) == Cardinality({k \in 1..Len(WinLines) : LineOf(b, WinLines[k], m)})

\* C14: no board reachable in the UI game holds a winning line for X and a winning
\* line for O at the same time.
C14_NoDoubleWinner == ~(HasLine(board, X) /\ HasLine(board, O))

\* C14, its case: the game has been won with two winning lines at once, both of
\* the same marker
C14_Witness ==
    /\ last.op = "click"
    /\ game_state = Won(X)
    /\ LinesHeld(board, X) = 2
    /\ ~HasLine(board, O)

\* The number of cells of board b that hold marker m
Count(b, m) == Cardinality({rc \in Idx \X Idx : b[rc[1]][rc[2]] = m})

\* C20: in every reachable state the number of X cells minus the number of O cells
\* is 0 or 1, and while game_state is Playing, current_player is X exactly when the
\* counts are equal and O exactly when X has one more.
C20_CountsAndTurn ==
    /\ Count(board, X) - Count(board, O) \in {0, 1}
    /\ game_state = Playing =>
           /\ (current_player = X) = (Count(board, X) = Count(board, O))
           /\ (current_player = O) = (Count(board, X) = Count(board, O) + 1)

\* C20, its case: eight cells are filled, the game goes on and it is X's turn
C20_Witness ==
    /\ game_state = Playing
    /\ current_player = X
    /\ Count(board, X) = 4
    /\ Count(board, O) = 4

\* C21: in every reachable state where game_state is Won(p), current_player is p
\* (the winner made the last move) and every winning line on the board belongs to
\* p; in every reachable state where game_state is Draw, the board holds exactly
\* five X and four O and current_player is X.
C21_WinnerMovedLast ==
    /\ \A p \in Player :
           game_state = Won(p) =>
               /\ current_player = p
               /\ HasLine(board, p)
               /\ \A k \in 1..Len(WinLines) :
                      Winning(board, WinLines[k]) => LineOf(board, WinLines[k], p)
               /\ AcceptedClick =>
                      /\ last.current_player = p
                      /\ board[last.row][last.col] = p
    /\ game_state = Draw =>
           /\ Count(board, X) = 5
           /\ Count(board, O) = 4
           /\ current_player = X

\* C21, its case: O has just won by its move
C21_Witness ==
    /\ AcceptedClick
    /\ game_state = Won(O)
    /\ current_player = O
    /\ board[last.row][last.col] = O

\* The number of occupied cells of board b
Occupied(b) == Count(b, X) + Count(b, O)

\* C22, the part that holds in every state: since the last reset at most nine
\* clicks were accepted, each of them filled one cell, game_state is not Playing on
\* a full board, and no Won status occurs before the fifth accepted move.
C22_Bounded ==
    /\ accepted <= 9
    /\ accepted = Occupied(board)
    /\ Occupied(board) = 9 => game_state # Playing
    /\ (game_state = Won(X) \/ game_state = Won(O)) => accepted >= 5

\* C22: every game of the UI state machine ends: C22_Bounded holds throughout, and
\* if clicks on empty cells keep being delivered and from some point on there is no
\* reset, the game reaches Won or Draw and stays there.
C22_GameEnds ==
    /\ []C22_Bounded
    /\ (<>[](last.op # "reset")) => <>[](game_state # Playing)

\* C22, its case: the ninth click since the reset was accepted and ended the game
C22_Witness ==
    /\ AcceptedClick
    /\ accepted = 9
    /\ game_state # Playing
    /\ last.game_state = Playing

----------------------------------------------------------------------------
(* Properties of the UI game through its components, checked under SpecView *)

\* handle_cell_click would take its early return on a click on (row, col): it
\* leaves the three signals as they are
HandlerRejects(row, col) ==
    handle_cell_click(board, current_player, game_state, row, col)
        = Signals(board, current_player, game_state)

\* C23: the disabled condition of GameCell (game_state != Playing or the cell is
\* occupied) is the rejection guard of handle_cell_click: in every reachable state
\* a cell forwards a click exactly when the handler would accept it, and the
\* handler is never invoked with a click it rejects or with coordinates outside
\* 0..2.
C23_DisabledIsRejectionGuard ==
    /\ \A rc \in GameBoard_cells :
           /\ InBounds(rc[1], rc[2])
           /\ GameCell_is_disabled(board[rc[1]][rc[2]], game_state)
                  = HandlerRejects(rc[1], rc[2])
           /\ GameCell_is_disabled(board[rc[1]][rc[2]], game_state)
                  = (game_state # Playing \/ board[rc[1]][rc[2]] # None)
    /\ last.op = "click" =>
           /\ InBounds(last.row, last.col)
           /\ last.game_state = Playing
           /\ last.board[last.row][last.col] = None
           /\ board # last.board
    /\ last.op = "disabled_click" =>
           /\ last.game_state # Playing \/ last.board[last.row][last.col] # None
           /\ board = last.board
           /\ HandlerRejects(last.row, last.col)

\* C23, its case: an empty cell was clicked after X had won; the cell was disabled
\* and the handler was not invoked
C23_Witness ==
    /\ last.op = "disabled_click"
    /\ last.game_state = Won(X)
    /\ last.board[last.row][last.col] = None
    /\ game_state = Won(X)

====
